---- MODULE Spec2Model ----
(***************************************************************************)
(* Password-reset token lifecycle of the user-authentication service:      *)
(* users/redis_utils.py (two-tier token store), users/serializers.py and   *)
(* users/views.py (reset request and reset confirm views), with the login  *)
(* and registration views and the throttles of users/throttling.py.        *)
(*                                                                         *)
(* Every request runs on its own worker.  A worker's handler is cut into   *)
(* one step per access to a shared resource (primary store, secondary      *)
(* store, user table); everything local between two accesses belongs to    *)
(* the step of the access that precedes it.                                *)
(*                                                                         *)
(* Python values are tagged tuples: <<"None">>, <<"int", i>>,              *)
(* <<"str", i>> (the decimal text of i) and <<"bytes", i>> (its utf-8      *)
(* encoding), so that str(), encode and decode are not the identity.       *)
(***************************************************************************)
EXTENDS Integers, FiniteSets, Sequences, TLC

\* ---------------------------------------------------------------- bounds
MaxTokens == 2        \* distinct values secrets.token_urlsafe can return
MaxRequests == 3      \* requests the service receives in one run
TickSecs == 300       \* seconds that pass in one Tick
TTL == 600            \* expiry of a stored token, redis_utils.py:40 and :48
MaxArrivals == 3      \* requests a throttled service receives in one run
MaxArrivalsSeq == 4   \* the same, when it handles one request at a time
NumRequests == 2      \* requests a configured rate allows per window
Duration == 600       \* seconds of the window of a configured rate

Workers == {"w1", "w2"}
Tokens == 1..MaxTokens
UserIds == {1, 2, 3}
\* emails clients submit: a registered one, an unregistered one, a malformed one
RequestEmails == {"a@x", "c@x", "not-an-email"}
Passwords == {"p1", "p2"}
\* (new_password, new_password_confirm) pairs a client submits
ConfirmInputs == {<<"p2", "p2">>, <<"p2", "p1">>}
\* (email, password) pairs of login requests: right, wrong password, unknown
\* email, missing password, missing email
LoginInputs ==
    {<<"a@x", "p1">>, <<"a@x", "p2">>, <<"c@x", "p1">>, <<"a@x", "<absent>">>, <<"<absent>", "p1">>}
\* passwords a password validator would refuse (test_registration.py:65)
WeakPasswords == {"123456"}
\* (email, password, password_confirm) of registration requests: a new email,
\* a registered email, differing passwords, a weak password, a missing field
RegisterInputs ==
    {<<"c@x", "p1", "p1">>, <<"a@x", "p2", "p2">>, <<"c@x", "p1", "p2">>,
     <<"c@x", "123456", "123456">>, <<"c@x", "<absent>", "p1">>}
\* (operation, body) of the requests a throttled service receives
ThrottledInputs ==
    {<<"login", <<"a@x", "p1">>>>, <<"request", <<"a@x">>>>}
        \cup {<<"confirm", <<t, "p2", "p2">>>> : t \in Tokens}
\* client addresses the throttles tell apart
Idents == {"ip1", "ip2"}
\* the throttle scopes of users/throttling.py
Scopes == {"login", "password_reset"}

\* ---------------------------------------------------------- Python values
None == <<"None">>
PyInt(i) == <<"int", i>>
\* str(user_id): the text of an integer
PyStr(v) == <<"str", v[2]>>
\* what redis stores and returns for a str value: its utf-8 bytes
Encode(s) == <<"bytes", s[2]>>
\* user_id_bytes.decode('utf-8')
Decode(b) == <<"str", b[2]>>
\* Python truthiness of a value read from a store (None is falsy; the text of
\* a user id is never empty)
Truthy(v) == v # None
\* the primary key Django coerces from the text handed to User.objects.get(id=...)
ToPk(s) == s[2]

\* f"password_reset:{token}"
Key(token) == <<"password_reset", token>>
Keys == {Key(t) : t \in Tokens}

\* -------------------------------------------------------- response texts
DetailGenerated == "Password reset token generated successfully."
DetailGeneric == "If the email exists in our system, a password reset link will be sent."
DetailIssueFailed == "Could not generate password reset token. Please try again later."
DetailResetOk == "Password reset successful. You can now log in with your new password."
DetailInvalidToken == "Invalid or expired token. Please request a new password reset."
DetailResetError == "An error occurred during password reset. Please try again later."
DetailInvalidCredentials == "Invalid credentials"
DetailThrottled == "Request was throttled."
NoField == "<absent>"

VARIABLES
    redis_available,  \* module flag set once at import (redis_utils.py:11-17)
    redisUp,          \* the primary store answers calls
    cacheUp,          \* the secondary store (Django cache) answers calls
    dbUp,             \* the user table answers calls
    redis,            \* primary store: key -> [val, ttl]
    cache,            \* secondary store: key -> [val, ttl]
    users,            \* user table: id -> [exists, email, password]
    wk,               \* per worker: position and locals of the request it handles
    issuedFor,        \* history: token -> user id it was issued for (None: not issued)
    age,              \* history: seconds since the token was written to a store,
                      \* capped at TTL (-1: not written)
    hist,             \* history: per token, outcomes of finished redeem/confirm calls
    started,          \* history: number of requests received so far
    throttle_rates,   \* settings: scope -> configured rate (None: the scope is not throttled)
    throttle,         \* throttle entries of the Django cache: key -> request history
    admits,           \* history: per throttle key, seconds since each admitted request
    rejected,         \* history: per throttle key, a request was answered 429
    latest            \* history: per user, the password last set for it

vars == <<redis_available, redisUp, cacheUp, dbUp, redis, cache, users, wk,
          issuedFor, age, hist, started, throttle_rates, throttle, admits, rejected,
          latest>>

\* what the password-reset handlers and the store failures leave alone
throttleVars == <<throttle_rates, throttle, admits, rejected>>

\* ------------------------------------------------------ key-value stores
\* a key that holds nothing
Absent == [val |-> None, ttl |-> 0]

\* redis_client.get(key) / cache.get(key): the stored value, None when absent
StoreGet(store, key) == store[key].val

\* redis_client.setex(key, 600, str(user_id)): redis keeps the utf-8 bytes
redis_setex(store, key, secs, value) ==
    [store EXCEPT ![key] = [val |-> Encode(value), ttl |-> secs]]

\* variant: the timeout argument is not honoured
cache_set_no_timeout(store, key, value, secs) ==
    [store EXCEPT ![key] = [val |-> value, ttl |-> 2 * secs + TickSecs]]

\* variant: the user id is stored as a number, not as its text
cache_set_int(store, key, value, secs) ==
    [store EXCEPT ![key] = [val |-> <<"int", value[2]>>, ttl |-> secs]]

\* cache.set(key, str(user_id), timeout=600): the cache keeps the str itself
cache_set(store, key, value, secs) ==
    [store EXCEPT ![key] = [val |-> value, ttl |-> secs]]

\* variant: the key is left in place
redis_delete_skipped(store, key) == store

\* variant: every reset token of the store is dropped with it
redis_delete_all(store, key) == [k \in DOMAIN store |-> Absent]

\* redis_client.delete(key)
redis_delete(store, key) == [store EXCEPT ![key] = Absent]

\* variant: the key is left in place
cache_delete_skipped(store, key) == store

\* cache.delete(key)
cache_delete(store, key) == [store EXCEPT ![key] = Absent]

\* expiry in either store: what is left of each key after secs seconds
Expire(store, secs) ==
    [k \in DOMAIN store |->
        IF store[k].ttl > secs THEN [store[k] EXCEPT !.ttl = @ - secs] ELSE Absent]

\* ------------------------------------------------------------- throttles
\* LoginRateThrottle and PasswordResetRateThrottle inherit allow_request from
\* rest_framework's AnonRateThrottle; a request history is the list of the
\* times of the admitted requests, newest first, kept here as seconds elapsed.

\* parse_rate of a configured rate: (num_requests, duration)
Rate == <<"rate", NumRequests, Duration>>
num_requests(rate) == rate[2]
duration(rate) == rate[3]

\* get_cache_key: 'throttle_%(scope)s_%(ident)s'
ThrottleKey(scope, ident) == <<"throttle", scope, ident>>
ThrottleKeys == {ThrottleKey(sc, i) : sc \in Scopes, i \in Idents}

\* variant: every throttled view counts against the login scope
ScopeOf_OneScope(op) == "login"

\* the scope of the throttle class of each throttled view
ScopeOf(op) == IF op = "login" THEN "login" ELSE "password_reset"

\* while self.history and self.history[-1] <= self.now - self.duration:
\*     self.history.pop()
RECURSIVE PopOld(_, _)
PopOld(history, secs) ==
    IF history # <<>> /\ history[Len(history)] >= secs
    THEN PopOld(SubSeq(history, 1, Len(history) - 1), secs)
    ELSE history

\* variant: the comparison lets one request too many through
Allowed_OffByOne(history, num) == ~(Len(history) > num)

\* if len(self.history) >= self.num_requests: return self.throttle_failure()
Allowed(history, num) == ~(Len(history) >= num)

\* throttle_success: self.history.insert(0, self.now)
Inserted(history) == <<0>> \o history

\* what is left of a throttle entry after secs seconds: cache.set gave it the
\* timeout self.duration, counted from its newest request
ExpireHistory(history, window, secs) ==
    IF history = <<>> \/ history[1] + secs >= window
    THEN <<>>
    ELSE [i \in 1..Len(history) |->
            IF history[i] + secs >= window THEN window ELSE history[i] + secs]

\* ------------------------------------------------------------ user table
\* set_password / create_user keep a hash, never the password
make_password(pw) == <<"hash", pw>>
check_password(pw, hashed) == hashed = make_password(pw)

\* a row of the user table that holds no user
NoUser == [exists |-> FALSE, email |-> NoField, password |-> <<"unusable", NoField>>]

\* User.objects.get(email=email): the ids such a lookup can return
UsersByEmail(tbl, email) == {u \in UserIds : tbl[u].exists /\ tbl[u].email = email}

\* variant: the row is not looked up before the password is written
UserExists_Unchecked(tbl, pk) == TRUE

\* User.objects.get(id=...) finds a row
UserExists(tbl, pk) == pk \in UserIds /\ tbl[pk].exists

\* variant: the password is not checked
authenticate_any_password(tbl, email, password) ==
    LET hit == UsersByEmail(tbl, email)
    IN  IF email = NoField \/ password = NoField THEN None
        ELSE IF hit = {} THEN None ELSE PyInt(CHOOSE u \in hit : TRUE)

\* django.contrib.auth.authenticate(email=..., password=...) as the views use it
\* (ModelBackend: a missing email or password returns None at once)
authenticate(tbl, email, password) ==
    LET hit == {u \in UsersByEmail(tbl, email) : check_password(password, tbl[u].password)}
    IN  IF email = NoField \/ password = NoField THEN None
        ELSE IF hit = {} THEN None ELSE PyInt(CHOOSE u \in hit : TRUE)

\* User.objects.create_user(email=..., password=...): a new row with the
\* password hashed
create_user(tbl, pk, email, password) ==
    [tbl EXCEPT ![pk] = [exists |-> TRUE, email |-> email, password |-> make_password(password)]]

\* variant: the password is stored as given (user.password = new_password)
SetPassword_Unhashed(tbl, pk, pw) == [tbl EXCEPT ![pk].password = <<"plain", pw>>]

\* user.set_password(new_password); user.save()
SetPassword(tbl, pk, pw) == [tbl EXCEPT ![pk].password = make_password(pw)]

\* ----------------------------------------------------------- serializers
\* EmailField: only well-formed addresses pass
WellFormedEmails == {"a@x", "b@x", "c@x"}
PasswordResetRequestSerializer_is_valid(email) == email \in WellFormedEmails

\* variant: validate() compares nothing
PasswordResetConfirmSerializer_unchecked(new_password, new_password_confirm) == TRUE

\* PasswordResetConfirmSerializer.validate: the two passwords must be equal
PasswordResetConfirmSerializer_is_valid(new_password, new_password_confirm) ==
    new_password = new_password_confirm

\* UserRegistrationSerializer: the declared fields are required, email is an
\* EmailField and password a CharField, neither with a validator of its own;
\* validate() compares the two passwords
UserRegistrationSerializer_is_valid(email, password, password_confirm) ==
    /\ email \in WellFormedEmails
    /\ password # NoField /\ password_confirm # NoField
    /\ password = password_confirm

\* create_user meets the unique constraint on email: IntegrityError
EmailTaken(tbl, email) == UsersByEmail(tbl, email) # {}

\* ------------------------------------------------------- worker records
\* history a redeem call carries while it runs: whether, when the call started,
\* its token had expired, and whether a confirm with it had already succeeded
NoSnap == [expired |-> FALSE, conf |-> FALSE]

Blank ==
    [pc |-> "idle", op |-> "none", email |-> NoField, tok |-> 0, pw |-> NoField,
     malformed |-> FALSE, found |-> FALSE, user_id |-> None, ret |-> None,
     tier |-> "none", status |-> 0, detail |-> NoField, token |-> 0, snap |-> NoSnap,
     body |-> <<>>, ident |-> NoField, history |-> <<>>, n |-> 0,
     user |-> None, jwt |-> None]

\* a worker takes the next request when it is not handling one; a request
\* that a throttle admitted goes on to the view's post
CanStart(w) ==
    \/ /\ wk[w].pc \in {"idle", "done"}
       /\ started < MaxRequests
       /\ started' = started + 1
    \/ /\ wk[w].pc = "admitted"
       /\ started' = started

\* the view of operation op, whose throttle scope is scope, receives body:
\* straight away when the scope has no rate (allow_request returns True
\* without touching the cache), else after the throttle admitted that request
Routed(w, op, scope, body) ==
    IF wk[w].pc = "admitted"
    THEN wk[w].op = op /\ wk[w].body = body
    ELSE throttle_rates[scope] = None

\* the Response a view returns: status code, `detail` field, `token` field (0: absent)
Respond(r, status, detail, token) ==
    [r EXCEPT !.pc = "done", !.status = status, !.detail = detail, !.token = token,
              !.pw = NoField, !.user_id = None]

\* per token: a redeem call has returned (calls), one has returned a user id
\* (used), a confirm has answered 200 (conf), a redeem call found the token in
\* the primary store and could not delete it (kept)
NoHist == [calls |-> FALSE, used |-> FALSE, conf |-> FALSE, kept |-> FALSE]

\* ------------------------------------------------------------------ Init
\* module import (redis_utils.py:11-17) decides redis_available once; two
\* subjects are registered; both stores are empty; every worker is idle.
InitState ==
    /\ redis_available \in BOOLEAN
    /\ redisUp = TRUE /\ cacheUp = TRUE /\ dbUp = TRUE
    /\ redis = [k \in Keys |-> Absent]
    /\ cache = [k \in Keys |-> Absent]
    /\ users = [u \in UserIds |->
                  IF u = 3 THEN NoUser
                  ELSE [exists |-> TRUE,
                        email |-> IF u = 1 THEN "a@x" ELSE "b@x",
                        password |-> make_password("p1")]]
    /\ wk = [w \in Workers |-> Blank]
    /\ issuedFor = [t \in Tokens |-> None]
    /\ age = [t \in Tokens |-> -1]
    /\ hist = [t \in Tokens |-> NoHist]
    /\ started = 0
    /\ throttle = [k \in ThrottleKeys |-> <<>>]
    /\ admits = [k \in ThrottleKeys |-> <<>>]
    /\ rejected = [k \in ThrottleKeys |-> FALSE]
    /\ latest = [u \in UserIds |-> IF u = 3 THEN NoField ELSE "p1"]

\* the password-reset flow on its own: no scope has a rate
Init ==
    /\ InitState
    /\ throttle_rates = [sc \in Scopes |-> None]

\* login, registration and password reset with the primary store in use
InitLogin ==
    /\ Init
    /\ redis_available

\* both scopes have a rate; the primary store is in use
InitThrottle ==
    /\ InitState
    /\ redis_available
    /\ throttle_rates = [sc \in Scopes |-> Rate]

\* ------------------------------------------------ PasswordResetRequestView
\* variant: the primary store is probed again by every call
PrimaryInUse_Probed == redisUp

\* redis_utils.py:38 and :72: if redis_available and redis_client
PrimaryInUse == redis_available

\* views.py:281-314 up to the call of generate_password_reset_token, and
\* redis_utils.py:31-38: serializer, lookup by email, token generation.
\* secrets.token_urlsafe(32) returns a value no earlier call returned.
PasswordResetRequestView_post(w, email) ==
    /\ CanStart(w)
    /\ Routed(w, "request", "password_reset", <<email>>)
    /\ LET r0 == [Blank EXCEPT !.op = "request", !.email = email, !.malformed = email \notin WellFormedEmails]
           hit == UsersByEmail(users, email)
       IN  IF ~PasswordResetRequestSerializer_is_valid(email)
           THEN /\ wk' = [wk EXCEPT ![w] = Respond(r0, 400, NoField, 0)]
                /\ UNCHANGED <<issuedFor, age, hist>>
           ELSE IF ~dbUp
           THEN \* the lookup raises something other than DoesNotExist: no handler
                \* in the view catches it, the framework answers 500
                /\ wk' = [wk EXCEPT ![w] = Respond(r0, 500, NoField, 0)]
                /\ UNCHANGED <<issuedFor, age, hist>>
           ELSE IF hit = {}
           THEN /\ wk' = [wk EXCEPT ![w] = Respond(r0, 200, DetailGeneric, 0)]
                /\ UNCHANGED <<issuedFor, age, hist>>
           ELSE \E u \in hit, t \in Tokens :
                /\ issuedFor[t] = None
                /\ wk' = [wk EXCEPT ![w] =
                            [r0 EXCEPT !.found = TRUE, !.tok = t, !.user_id = PyInt(u),
                                       !.pc = IF PrimaryInUse THEN "setex" ELSE "cache_set"]]
                /\ issuedFor' = [issuedFor EXCEPT ![t] = PyInt(u)]
                /\ age' = age
                /\ hist' = [hist EXCEPT ![t] = NoHist]
    /\ UNCHANGED <<redis_available, redisUp, cacheUp, dbUp, redis, cache, users>>
    /\ UNCHANGED <<throttleVars, latest>>

\* variant: the response leaves the token out
generate_password_reset_token_not_returned(r) == Respond(r, 200, DetailGenerated, 0)

\* variant: a failed secondary write is raised to the view
generate_password_reset_token_raises(r) ==
    IF r.pc = "cache_set" /\ ~cacheUp
    THEN Respond(r, 500, DetailIssueFailed, 0)
    ELSE Respond(r, 200, DetailGenerated, r.tok)

\* the view's answer once generate_password_reset_token has returned the token
generate_password_reset_token_return(r) == Respond(r, 200, DetailGenerated, r.tok)

\* variant: the secondary store is written whatever the primary write did
SecondaryWriteNeeded_Always(redis_success) == TRUE

\* redis_utils.py:46: if not redis_success
SecondaryWriteNeeded(redis_success) == ~redis_success

\* redis_utils.py:37-46: redis_client.setex inside try/except sets
\* redis_success; the secondary write follows only when it is still False
generate_password_reset_token_redis(w) ==
    /\ wk[w].pc = "setex"
    /\ LET redis_success == redisUp
       IN  /\ redis' = IF redis_success
                       THEN redis_setex(redis, Key(wk[w].tok), TTL, PyStr(wk[w].user_id))
                       ELSE redis
           /\ wk' = [wk EXCEPT ![w] =
                       IF SecondaryWriteNeeded(redis_success)
                       THEN [@ EXCEPT !.pc = "cache_set"]
                       ELSE generate_password_reset_token_return(@)]
           /\ age' = IF redis_success THEN [age EXCEPT ![wk[w].tok] = 0] ELSE age
    /\ UNCHANGED <<redis_available, redisUp, cacheUp, dbUp, cache, users, issuedFor, hist, started>>
    /\ UNCHANGED <<throttleVars, latest>>

\* redis_utils.py:46-54: cache.set inside try/except, then return token
generate_password_reset_token_cache(w) ==
    /\ wk[w].pc = "cache_set"
    /\ cache' = IF cacheUp
                THEN cache_set(cache, Key(wk[w].tok), PyStr(wk[w].user_id), TTL)
                ELSE cache
    /\ wk' = [wk EXCEPT ![w] = generate_password_reset_token_return(@)]
    /\ age' = IF cacheUp THEN [age EXCEPT ![wk[w].tok] = 0] ELSE age
    /\ UNCHANGED <<redis_available, redisUp, cacheUp, dbUp, redis, users, issuedFor, hist, started>>
    /\ UNCHANGED <<throttleVars, latest>>

\* ------------------------------------------------ PasswordResetConfirmView
\* what a redeem call knows of its token when the call starts (history only)
SnapOf(t) ==
    [expired |-> age[t] >= TTL,
     conf |-> hist[t].conf]

\* views.py:336-344: serializer, then the call of validate_password_reset_token
\* (redis_utils.py:68-72) up to its first store access
PasswordResetConfirmView_post(w, token, new_password, new_password_confirm) ==
    /\ CanStart(w)
    /\ Routed(w, "confirm", "password_reset", <<token, new_password, new_password_confirm>>)
    /\ LET r0 == [Blank EXCEPT !.op = "confirm", !.tok = token, !.pw = new_password,
                               !.malformed = new_password # new_password_confirm,
                               !.snap = SnapOf(token)]
       IN  wk' = [wk EXCEPT ![w] =
                IF ~PasswordResetConfirmSerializer_is_valid(new_password, new_password_confirm)
                THEN Respond(r0, 400, NoField, 0)
                ELSE [r0 EXCEPT !.pc = IF PrimaryInUse THEN "redis_get" ELSE "cache_get"]]
    /\ UNCHANGED <<redis_available, redisUp, cacheUp, dbUp, redis, cache, users,
                   issuedFor, age, hist>>
    /\ UNCHANGED <<throttleVars, latest>>

\* variant: no short circuit, a primary hit goes on to the secondary store
Return_NoShortCircuit(r, value, tier) ==
    IF tier = "redis"
    THEN [r EXCEPT !.pc = "cache_get"]
    ELSE [r EXCEPT !.pc = "view", !.ret = value, !.user_id = None, !.tier = tier]

\* variant: the function ends with `return user_id`, which still holds what a
\* read found when the delete after it raised
Return_KeepsFound(r, value, tier) ==
    [r EXCEPT !.pc = "view", !.ret = IF value = None THEN r.user_id ELSE value,
              !.user_id = None, !.tier = tier]

\* validate_password_reset_token returns value, read from tier, to the view
Return(r, value, tier) ==
    [r EXCEPT !.pc = "view", !.ret = value, !.user_id = None, !.tier = tier]

\* history of a redeem call of token t that returns value
Returned(r, value) ==
    [hist EXCEPT ![r.tok].calls = TRUE,
                 ![r.tok].used = @ \/ value # None]

\* variant: a primary store that raised is asked again
OnPrimaryMiss_Retries(r) ==
    IF ~redisUp THEN [r EXCEPT !.pc = "redis_get"] ELSE [r EXCEPT !.pc = "cache_get"]

\* variant: a primary miss is terminal
OnPrimaryMiss_ReturnNone(r) == [r EXCEPT !.pc = "view", !.ret = None, !.user_id = None]

\* variant: an exception of the primary store reaches the view
OnPrimaryMiss_Raises(r) ==
    IF ~redisUp THEN Respond(r, 500, DetailResetError, 0) ELSE [r EXCEPT !.pc = "cache_get"]

\* variant: a user id that was read is returned although its delete raised
OnPrimaryMiss_ReturnsFound(r) ==
    IF r.user_id # None THEN Return(r, r.user_id, "redis") ELSE [r EXCEPT !.pc = "cache_get"]

\* redis_utils.py:80-85: the primary did not return the token, "continue to
\* try the cache fallback"
OnPrimaryMiss(r) == [r EXCEPT !.pc = "cache_get"]

\* redis_utils.py:73-76: redis_client.get(key); a raised exception and an
\* absent key both fall through to the cache
validate_password_reset_token_redis_get(w) ==
    /\ wk[w].pc = "redis_get"
    /\ LET r == wk[w]
           user_id_bytes == StoreGet(redis, Key(r.tok))
       IN  wk' = [wk EXCEPT ![w] =
                IF redisUp /\ Truthy(user_id_bytes)
                THEN [r EXCEPT !.user_id = Decode(user_id_bytes), !.pc = "redis_delete"]
                ELSE OnPrimaryMiss(r)]
    /\ UNCHANGED <<redis_available, redisUp, cacheUp, dbUp, redis, cache, users,
                   issuedFor, age, hist, started>>
    /\ UNCHANGED <<throttleVars, latest>>

\* redis_utils.py:77-82: redis_client.delete(key); return user_id; a raised
\* exception falls through to the cache
validate_password_reset_token_redis_delete(w) ==
    /\ wk[w].pc = "redis_delete"
    /\ IF redisUp
       THEN /\ redis' = redis_delete(redis, Key(wk[w].tok))
            /\ wk' = [wk EXCEPT ![w] = Return(@, wk[w].user_id, "redis")]
            /\ hist' = Returned(wk[w], wk[w].user_id)
       ELSE /\ wk' = [wk EXCEPT ![w] = OnPrimaryMiss(@)]
            /\ hist' = [hist EXCEPT ![wk[w].tok].kept = TRUE]
            /\ redis' = redis
    /\ UNCHANGED <<redis_available, redisUp, cacheUp, dbUp, cache, users, issuedFor, age, started>>
    /\ UNCHANGED <<throttleVars, latest>>

\* redis_utils.py:85-87 and 91-94: cache.get(key); a raised exception and an
\* absent key both return None
validate_password_reset_token_cache_get(w) ==
    /\ wk[w].pc = "cache_get"
    /\ LET r == wk[w]
           user_id == StoreGet(cache, Key(r.tok))
       IN  IF cacheUp /\ Truthy(user_id)
           THEN /\ wk' = [wk EXCEPT ![w] = [r EXCEPT !.user_id = user_id, !.pc = "cache_delete"]]
                /\ hist' = hist
           ELSE /\ wk' = [wk EXCEPT ![w] = Return(r, None, "none")]
                /\ hist' = Returned(r, None)
    /\ UNCHANGED <<redis_available, redisUp, cacheUp, dbUp, redis, cache, users,
                   issuedFor, age, started>>
    /\ UNCHANGED <<throttleVars, latest>>

\* redis_utils.py:88-94: cache.delete(key); return user_id; a raised exception
\* returns None
validate_password_reset_token_cache_delete(w) ==
    /\ wk[w].pc = "cache_delete"
    /\ LET value == IF cacheUp THEN wk[w].user_id ELSE None
       IN  /\ cache' = IF cacheUp THEN cache_delete(cache, Key(wk[w].tok)) ELSE cache
           /\ wk' = [wk EXCEPT ![w] = Return(@, value, IF cacheUp THEN "cache" ELSE "none")]
           /\ hist' = Returned(wk[w], value)
    /\ UNCHANGED <<redis_available, redisUp, cacheUp, dbUp, redis, users, issuedFor, age, started>>
    /\ UNCHANGED <<throttleVars, latest>>

\* variant: a used token gets its own message
InvalidTokenResponse_Leaky(r) ==
    IF hist[r.tok].used
    THEN Respond(r, 400, "This token has already been used.", 0)
    ELSE Respond(r, 400, DetailInvalidToken, 0)

\* views.py:358-360: the generic rejection
InvalidTokenResponse(r) == Respond(r, 400, DetailInvalidToken, 0)

\* variant: the exception leaves the view, the framework answers
ResetErrorResponse_Uncaught(r) == Respond(r, 500, NoField, 0)

\* views.py:361-368: except Exception, the generic retry-later answer
ResetErrorResponse(r) == Respond(r, 500, DetailResetError, 0)

\* views.py:346-368: the view after validate_password_reset_token returned
PasswordResetConfirmView_post_respond(w) ==
    /\ wk[w].pc = "view"
    /\ LET r == wk[w]
       IN  IF ~Truthy(r.ret)
           THEN /\ wk' = [wk EXCEPT ![w] = InvalidTokenResponse(r)]
                /\ UNCHANGED <<users, hist, latest>>
           ELSE IF ~dbUp
           THEN /\ wk' = [wk EXCEPT ![w] = ResetErrorResponse(r)]
                /\ UNCHANGED <<users, hist, latest>>
           ELSE IF ~UserExists(users, ToPk(r.ret))
           THEN /\ wk' = [wk EXCEPT ![w] = InvalidTokenResponse(r)]
                /\ UNCHANGED <<users, hist, latest>>
           ELSE /\ users' = SetPassword(users, ToPk(r.ret), r.pw)
                /\ wk' = [wk EXCEPT ![w] = Respond(r, 200, DetailResetOk, 0)]
                /\ hist' = [hist EXCEPT ![r.tok].conf = TRUE]
                /\ latest' = [latest EXCEPT ![ToPk(r.ret)] = r.pw]
    /\ UNCHANGED <<redis_available, redisUp, cacheUp, dbUp, redis, cache, issuedFor, age, started>>
    /\ UNCHANGED throttleVars

\* ------------------------------------------------------------- throttling
\* APIView.initial runs check_throttles before post.  allow_request up to and
\* including self.cache.get(self.key, []) and the dropping of old entries.
allow_request_get(w, op, body, ident) ==
    /\ wk[w].pc \in {"idle", "done"}
    /\ started' = started + 1
    /\ throttle_rates[ScopeOf(op)] # None
    /\ LET rate == throttle_rates[ScopeOf(op)]
           key == ThrottleKey(ScopeOf(op), ident)
       IN  wk' = [wk EXCEPT ![w] =
                    [Blank EXCEPT !.op = op, !.body = body, !.ident = ident,
                                  !.pc = "throttle",
                                  !.history = PopOld(throttle[key], duration(rate))]]
    /\ UNCHANGED <<redis_available, redisUp, cacheUp, dbUp, redis, cache, users,
                   issuedFor, age, hist, throttle_rates, throttle, admits, rejected, latest>>

\* variant: a request over the rate is let through to the view
Throttled_Ignored(r) == [r EXCEPT !.pc = "admitted", !.history = <<>>]

\* check_throttles raises Throttled: the request is answered 429 and post
\* is not called
Throttled(r) == Respond([r EXCEPT !.history = <<>>], 429, DetailThrottled, 0)

\* the rest of allow_request: throttle_failure, or throttle_success with its
\* self.cache.set(self.key, self.history, self.duration)
allow_request_decide(w) ==
    /\ wk[w].pc = "throttle"
    /\ LET r == wk[w]
           rate == throttle_rates[ScopeOf(r.op)]
           key == ThrottleKey(ScopeOf(r.op), r.ident)
       IN  IF Allowed(r.history, num_requests(rate))
           THEN /\ throttle' = [throttle EXCEPT ![key] = Inserted(r.history)]
                /\ admits' = [admits EXCEPT ![key] = <<0>> \o @]
                /\ wk' = [wk EXCEPT ![w] = [r EXCEPT !.pc = "admitted", !.history = <<>>]]
                /\ rejected' = rejected
           ELSE /\ wk' = [wk EXCEPT ![w] = Throttled(r)]
                /\ rejected' = [rejected EXCEPT ![key] = TRUE]
                /\ UNCHANGED <<throttle, admits>>
    /\ UNCHANGED <<redis_available, redisUp, cacheUp, dbUp, redis, cache, users,
                   issuedFor, age, hist, started, throttle_rates, latest>>

\* ------------------------------------------------------------ UserLoginView
\* variant: an unknown email gets its own message
InvalidCredentials_Leaky(r) ==
    IF UsersByEmail(users, r.body[1]) = {}
    THEN Respond(r, 401, "No account with this email", 0)
    ELSE Respond(r, 401, DetailInvalidCredentials, 0)

\* views.py:140
InvalidCredentials(r) == Respond(r, 401, DetailInvalidCredentials, 0)

\* views.py:128-138 and :82-90: the user and the tokens RefreshToken.for_user
\* made for it
WithTokens(r, status, user) ==
    [Respond(r, status, NoField, 0) EXCEPT !.user = user, !.jwt = user]

\* views.py:122-140; request.data.get gives None for a missing field
UserLoginView_post(w, email, password) ==
    /\ CanStart(w)
    /\ Routed(w, "login", "login", <<email, password>>)
    /\ LET r0 == [Blank EXCEPT !.op = "login", !.body = <<email, password>>, !.n = started']
           user == authenticate(users, email, password)
       IN  wk' = [wk EXCEPT ![w] =
                IF ~dbUp /\ email # NoField /\ password # NoField
                THEN Respond(r0, 500, NoField, 0)
                ELSE IF user # None
                THEN WithTokens(r0, 200, user)
                ELSE InvalidCredentials(r0)]
    /\ UNCHANGED <<redis_available, redisUp, cacheUp, dbUp, redis, cache, users,
                   issuedFor, age, hist, throttle_rates, throttle, admits, rejected, latest>>

\* ----------------------------------------------------- UserRegistrationView
\* views.py:62-92 and serializers.py:18-27; the view has no throttle class.
\* serializer.save() is not inside a try: an exception of create_user leaves
\* the view and the framework answers 500.
UserRegistrationView_post(w, email, password, password_confirm) ==
    /\ CanStart(w)
    /\ wk[w].pc # "admitted"
    /\ LET r0 == [Blank EXCEPT !.op = "register", !.email = email,
                               !.body = <<email, password, password_confirm>>,
                               !.n = started']
           free == {u \in UserIds : ~users[u].exists}
       IN  IF ~UserRegistrationSerializer_is_valid(email, password, password_confirm)
           THEN /\ wk' = [wk EXCEPT ![w] = Respond(r0, 400, NoField, 0)]
                /\ UNCHANGED <<users, latest>>
           ELSE IF EmailTaken(users, email)
           THEN /\ wk' = [wk EXCEPT ![w] = Respond(r0, 500, NoField, 0)]
                /\ UNCHANGED <<users, latest>>
           ELSE /\ free # {}
                /\ LET pk == CHOOSE u \in free : \A v \in free : u <= v
                   IN  /\ users' = create_user(users, pk, email, password)
                       /\ latest' = [latest EXCEPT ![pk] = password]
                       /\ wk' = [wk EXCEPT ![w] = WithTokens(r0, 201, PyInt(pk))]
    /\ UNCHANGED <<redis_available, redisUp, cacheUp, dbUp, redis, cache,
                   issuedFor, age, hist, throttle_rates, throttle, admits, rejected>>

\* ------------------------------------------------------------ environment
\* the primary store stops or resumes answering
RedisFail == redisUp /\ redisUp' = FALSE
    /\ UNCHANGED <<redis_available, cacheUp, dbUp, redis, cache, users, wk, issuedFor, age, hist, started>>
    /\ UNCHANGED <<throttleVars, latest>>
RedisRecover == ~redisUp /\ redisUp' = TRUE
    /\ UNCHANGED <<redis_available, cacheUp, dbUp, redis, cache, users, wk, issuedFor, age, hist, started>>
    /\ UNCHANGED <<throttleVars, latest>>

\* the secondary store stops or resumes answering
CacheFail == cacheUp /\ cacheUp' = FALSE
    /\ UNCHANGED <<redis_available, redisUp, dbUp, redis, cache, users, wk, issuedFor, age, hist, started>>
    /\ UNCHANGED <<throttleVars, latest>>
CacheRecover == ~cacheUp /\ cacheUp' = TRUE
    /\ UNCHANGED <<redis_available, redisUp, dbUp, redis, cache, users, wk, issuedFor, age, hist, started>>
    /\ UNCHANGED <<throttleVars, latest>>

\* the user table stops or resumes answering
DbFail == dbUp /\ dbUp' = FALSE
    /\ UNCHANGED <<redis_available, redisUp, cacheUp, redis, cache, users, wk, issuedFor, age, hist, started>>
    /\ UNCHANGED <<throttleVars, latest>>
DbRecover == ~dbUp /\ dbUp' = TRUE
    /\ UNCHANGED <<redis_available, redisUp, cacheUp, redis, cache, users, wk, issuedFor, age, hist, started>>
    /\ UNCHANGED <<throttleVars, latest>>

\* TickSecs seconds pass: both stores drop what has expired
\* (allow_request reads the clock once: no time passes inside one call)
Tick ==
    /\ \A w \in Workers : wk[w].pc # "throttle"
    /\ redis' = Expire(redis, TickSecs)
    /\ cache' = Expire(cache, TickSecs)
    /\ age' = [t \in Tokens |->
                 IF age[t] < 0 THEN age[t]
                 ELSE IF age[t] + TickSecs >= TTL THEN TTL ELSE age[t] + TickSecs]
    /\ throttle' = [k \in ThrottleKeys |->
                      IF throttle_rates[k[2]] = None THEN throttle[k]
                      ELSE ExpireHistory(throttle[k], duration(throttle_rates[k[2]]), TickSecs)]
    /\ admits' = [k \in ThrottleKeys |->
                    LET aged == [i \in 1..Len(admits[k]) |-> admits[k][i] + TickSecs]
                    IN  SelectSeq(aged, LAMBDA a : a < Duration)]
    /\ UNCHANGED <<redis_available, redisUp, cacheUp, dbUp, users, wk, issuedFor, hist,
                   started, throttle_rates, rejected, latest>>

\* reset_superuser.py:16-20: an operator script deletes a user row
DeleteUser(u) ==
    /\ users[u].exists
    /\ users' = [users EXCEPT ![u].exists = FALSE]
    /\ UNCHANGED <<redis_available, redisUp, cacheUp, dbUp, redis, cache, wk, issuedFor, age, hist, started>>
    /\ UNCHANGED <<throttleVars, latest>>

\* ------------------------------------------------------- specifications
WorkerStep(w) ==
    \/ \E email \in RequestEmails : PasswordResetRequestView_post(w, email)
    \/ generate_password_reset_token_redis(w)
    \/ generate_password_reset_token_cache(w)
    \/ \E t \in Tokens, p \in ConfirmInputs : PasswordResetConfirmView_post(w, t, p[1], p[2])
    \/ validate_password_reset_token_redis_get(w)
    \/ validate_password_reset_token_redis_delete(w)
    \/ validate_password_reset_token_cache_get(w)
    \/ validate_password_reset_token_cache_delete(w)
    \/ PasswordResetConfirmView_post_respond(w)

Next ==
    \/ \E w \in Workers : WorkerStep(w)
    \/ RedisFail \/ RedisRecover \/ CacheFail \/ CacheRecover
    \/ Tick

\* the password-reset flow: every worker, every store failure, expiry
Spec == Init /\ [][Next]_vars

\* one caller at a time and both stores answering every call
NextSeq ==
    \/ WorkerStep("w1")
    \/ Tick

SpecSeq == Init /\ [][NextSeq]_vars

\* login and registration next to the password-reset flow, stores answering
LoginStep(w) ==
    \/ \E p \in LoginInputs : UserLoginView_post(w, p[1], p[2])
    \/ \E p \in RegisterInputs : UserRegistrationView_post(w, p[1], p[2], p[3])
    \/ \E email \in RequestEmails : PasswordResetRequestView_post(w, email)
    \/ generate_password_reset_token_redis(w)
    \/ \E t \in Tokens, p \in ConfirmInputs : PasswordResetConfirmView_post(w, t, p[1], p[2])
    \/ validate_password_reset_token_redis_get(w)
    \/ validate_password_reset_token_redis_delete(w)
    \/ validate_password_reset_token_cache_get(w)
    \/ PasswordResetConfirmView_post_respond(w)

NextLogin == \E w \in Workers : LoginStep(w)

SpecLogin == InitLogin /\ [][NextLogin]_vars

\* at most budget requests, from the clients idents, reach a throttled view
Arrival(w, idents, budget) ==
    /\ started < budget
    /\ \E x \in ThrottledInputs, i \in idents : allow_request_get(w, x[1], x[2], i)

\* the throttled views: every request passes allow_request first
ThrottleStep(w) ==
    \/ allow_request_decide(w)
    \/ \E p \in LoginInputs : UserLoginView_post(w, p[1], p[2])
    \/ \E email \in RequestEmails : PasswordResetRequestView_post(w, email)
    \/ generate_password_reset_token_redis(w)
    \/ \E t \in Tokens, p \in ConfirmInputs : PasswordResetConfirmView_post(w, t, p[1], p[2])
    \/ validate_password_reset_token_redis_get(w)
    \/ validate_password_reset_token_redis_delete(w)
    \/ validate_password_reset_token_cache_get(w)
    \/ PasswordResetConfirmView_post_respond(w)

NextThrottle ==
    \/ \E w \in Workers : Arrival(w, {"ip1"}, MaxArrivals)
    \/ \E w \in Workers : ThrottleStep(w)
    \/ Tick

SpecThrottle == InitThrottle /\ [][NextThrottle]_vars

\* the throttled views, one request at a time
NextThrottleSeq ==
    \/ Arrival("w1", Idents, MaxArrivalsSeq)
    \/ ThrottleStep("w1")
    \/ Tick

SpecThrottleSeq == InitThrottle /\ [][NextThrottleSeq]_vars

\* the steps a handler takes after it received its request
HandlerStep(w) ==
    \/ generate_password_reset_token_redis(w)
    \/ generate_password_reset_token_cache(w)
    \/ validate_password_reset_token_redis_get(w)
    \/ validate_password_reset_token_redis_delete(w)
    \/ validate_password_reset_token_cache_get(w)
    \/ validate_password_reset_token_cache_delete(w)
    \/ PasswordResetConfirmView_post_respond(w)

\* the password-reset flow, one request at a time, while the stores and the
\* user table fail and recover and the subject of the flow is deleted
NextFault ==
    \/ WorkerStep("w1")
    \/ RedisFail \/ RedisRecover \/ CacheFail \/ CacheRecover
    \/ DbFail \/ DbRecover
    \/ DeleteUser(1)
    \/ Tick

SpecFault == Init /\ [][NextFault]_vars

\* the same failures while no token expires
NextFair ==
    \/ WorkerStep("w1")
    \/ RedisFail \/ RedisRecover \/ CacheFail \/ CacheRecover
    \/ DbFail \/ DbRecover
    \/ DeleteUser(1)

\* with the handler running on: a worker that holds a request keeps executing
\* it (a store call that fails raises, it does not block)
SpecFaultFair == Init /\ [][NextFair]_vars /\ WF_vars(HandlerStep("w1"))

\* =============================================================== claims
\* worker w's call of validate_password_reset_token returns in this step
RedeemReturns(w) == wk[w].pc # "view" /\ wk'[w].pc = "view"

\* worker w answers its request in this step
Responds(w) == wk[w].pc # "done" /\ wk'[w].pc = "done"

\* the text of the user id token t was issued for
IssuedText(t) == PyStr(issuedFor[t])

\* C1: with both stores answering and one caller at a time, the first redeem
\* of an issued token that returns before the token expires returns the
\* (text of the) user id it was issued for, and every later redeem of that
\* token returns None.
C1_RedeemsExactlyOnce ==
    [][\A w \in Workers :
        LET t == wk[w].tok IN
        (RedeemReturns(w) /\ issuedFor[t] # None) =>
            /\ (~hist[t].calls /\ age[t] < TTL) => wk'[w].ret = IssuedText(t)
            /\ hist[t].calls => wk'[w].ret = None]_vars

C1_Witness ==
    \E w \in Workers :
        /\ wk[w].pc = "done" /\ wk[w].op = "confirm" /\ ~wk[w].malformed
        /\ wk[w].ret = None
        /\ issuedFor[wk[w].tok] # None /\ age[wk[w].tok] < TTL
        /\ hist[wk[w].tok].used

\* C2: of the redeem calls for one token that different workers make, at most
\* one returns a user id.
C2_AtMostOneRedeemSucceeds ==
    \A w1, w2 \in Workers :
        (/\ w1 # w2
         /\ wk[w1].op = "confirm" /\ wk[w2].op = "confirm"
         /\ wk[w1].tok = wk[w2].tok
         /\ wk[w1].ret # None)
        => wk[w2].ret = None

\* C3: the answers to a reset request for a registered email and for an
\* unregistered (well-formed) email have the same status code and the same
\* `detail` value.
C3_SameAcknowledgment ==
    \A w1, w2 \in Workers :
        (/\ wk[w1].pc = "done" /\ wk[w1].op = "request" /\ ~wk[w1].malformed
         /\ wk[w2].pc = "done" /\ wk[w2].op = "request" /\ ~wk[w2].malformed
         /\ wk[w1].found /\ ~wk[w2].found)
        => /\ wk[w1].status = wk[w2].status
           /\ wk[w1].detail = wk[w2].detail

\* the entry a store holds for token t
Holds(store, t) == store[Key(t)] # Absent

\* what redeem does with the primary: it never answers None from there
PrimaryFallsThrough(w) ==
    /\ (CanStart(w) /\ wk'[w].op = "confirm" /\ wk'[w].pc # "done")
          => wk'[w].pc = IF redis_available THEN "redis_get" ELSE "cache_get"
    /\ wk[w].pc = "redis_get" => wk'[w].pc \in {"redis_get", "redis_delete", "cache_get"}
    /\ wk[w].pc = "redis_delete" =>
          \/ wk'[w].pc \in {"redis_delete", "cache_get"}
          \/ wk'[w].pc = "view" /\ wk'[w].ret # None
    /\ (RedeemReturns(w) /\ wk'[w].ret = None) => wk[w].pc \in {"cache_get", "cache_delete"}

\* the secondary read finds the token and goes on to delete it
SecondaryReadServes(w) ==
    (wk[w].pc = "cache_get" /\ wk'[w] # wk[w] /\ cacheUp /\ Holds(cache, wk[w].tok))
        => wk'[w].pc = "cache_delete" /\ wk'[w].user_id = cache[Key(wk[w].tok)].val

\* C4 as stated: whenever the primary does not return the token redeem
\* consults the secondary store, and a token the secondary read found is
\* deleted there and its user id returned.
C4_FallbackAlwaysRedeems ==
    [][\A w \in Workers :
        /\ PrimaryFallsThrough(w)
        /\ SecondaryReadServes(w)
        /\ (wk[w].pc = "cache_delete" /\ wk'[w] # wk[w]) =>
              /\ ~Holds(cache', wk[w].tok)
              /\ wk'[w].pc = "view" /\ wk'[w].ret = wk[w].user_id]_vars

\* C4 amended: whenever the primary does not return the token (key absent,
\* read or delete raised, primary marked unavailable) redeem consults the
\* secondary store; a token the secondary read found is deleted there and its
\* user id returned if the secondary delete succeeds, and if that delete
\* raises redeem returns None and the token stays in the secondary store.
C4_FallbackRedeemsUnlessDeleteFails ==
    [][\A w \in Workers :
        /\ PrimaryFallsThrough(w)
        /\ SecondaryReadServes(w)
        /\ (wk[w].pc = "cache_delete" /\ wk'[w] # wk[w]) =>
              /\ wk'[w].pc = "view"
              /\ cacheUp => ~Holds(cache', wk[w].tok) /\ wk'[w].ret = wk[w].user_id
              /\ ~cacheUp => cache' = cache /\ wk'[w].ret = None]_vars

\* a token written only to the secondary store is redeemed from it while the
\* primary is marked available, answers and no longer holds anything
C4_Witness ==
    \E w \in Workers :
        /\ wk[w].pc = "view" /\ wk[w].tier = "cache"
        /\ wk[w].ret = IssuedText(wk[w].tok)
        /\ redis_available /\ redisUp

\* C5: a redeem of a token that was never issued, and a redeem that starts
\* 600 seconds or more after its token was stored, returns None.
C5_UnissuedOrExpiredIsNone ==
    [][\A w \in Workers :
        (RedeemReturns(w) /\ (issuedFor[wk[w].tok] = None \/ wk[w].snap.expired))
            => wk'[w].ret = None]_vars

\* a token that was stored in the secondary tier and has expired is redeemed
C5_Witness ==
    \E w \in Workers :
        /\ wk[w].pc = "view" /\ wk[w].snap.expired /\ wk[w].ret = None
        /\ ~redis_available /\ cacheUp /\ age[wk[w].tok] = TTL

\* C6: whenever redeem returns a user id, the tier that served it no longer
\* holds the token when redeem returns.
C6_DestructiveOnSuccess ==
    [][\A w \in Workers :
        (RedeemReturns(w) /\ wk'[w].ret # None) =>
            /\ wk'[w].tier \in {"redis", "cache"}
            /\ wk'[w].tier = "redis" => ~Holds(redis', wk[w].tok)
            /\ wk'[w].tier = "cache" => ~Holds(cache', wk[w].tok)]_vars

C6_Witness ==
    \E w \in Workers :
        /\ wk[w].pc = "view" /\ wk[w].ret # None /\ wk[w].tier = "cache"
        /\ ~Holds(cache, wk[w].tok) /\ ~Holds(redis, wk[w].tok) /\ ~cacheUp

\* worker w receives a confirm request in this step
ConfirmArrives(w) == CanStart(w) /\ wk'[w].op = "confirm"

\* C7: a confirm whose two passwords differ is answered 400 at once: no
\* redeem call is made, nothing is read from or deleted in either store and
\* no password changes.
C7_MismatchTouchesNothing ==
    [][\A w \in Workers :
        (ConfirmArrives(w) /\ wk'[w].malformed) =>
            /\ wk'[w].pc = "done" /\ wk'[w].status = 400
            /\ wk'[w].ret = None
            /\ redis' = redis /\ cache' = cache /\ users' = users]_vars

C7_Witness ==
    \E w \in Workers :
        /\ wk[w].pc = "done" /\ wk[w].op = "confirm" /\ wk[w].malformed
        /\ wk[w].status = 400
        /\ Holds(redis, wk[w].tok)

\* the email of user pk
EmailOf(pk) == users[pk].email

\* C8: when redeem has returned the id of an existing subject to a confirm,
\* the view answers 200 and afterwards that subject's credentials verify
\* with the new password and with no other password.
C8_ConfirmSetsPassword ==
    [][\A w \in Workers :
        LET pk == ToPk(wk[w].ret) IN
        (wk[w].pc = "view" /\ wk'[w] # wk[w] /\ wk[w].ret # None /\ UserExists(users, pk)) =>
            /\ wk'[w].pc = "done" /\ wk'[w].status = 200 /\ wk'[w].detail = DetailResetOk
            /\ authenticate(users', EmailOf(pk), wk[w].pw) = PyInt(pk)
            /\ \A p \in Passwords \ {wk[w].pw} : authenticate(users', EmailOf(pk), p) = None]_vars

C8_Witness ==
    \E w \in Workers :
        /\ wk[w].pc = "done" /\ wk[w].op = "confirm" /\ wk[w].status = 200
        /\ authenticate(users, "a@x", "p2") = PyInt(1)
        /\ authenticate(users, "a@x", "p1") = None

\* C9: a confirm whose redeem returned None is answered with status 400 and
\* the one generic text, whatever the reason, and changes no password.
C9_GenericRejection ==
    [][\A w \in Workers :
        (wk[w].pc = "view" /\ wk'[w] # wk[w] /\ wk[w].ret = None) =>
            /\ wk'[w].pc = "done"
            /\ wk'[w].status = 400 /\ wk'[w].detail = DetailInvalidToken
            /\ users' = users]_vars

\* two rejected confirms side by side, one of an expired token and one of a
\* token never issued, answered alike
C9_Witness ==
    \E w1, w2 \in Workers :
        /\ wk[w1].pc = "done" /\ wk[w1].op = "confirm" /\ ~wk[w1].malformed
        /\ wk[w1].ret = None /\ wk[w1].snap.expired
        /\ wk[w2].pc = "done" /\ wk[w2].op = "confirm" /\ ~wk[w2].malformed
        /\ wk[w2].ret = None /\ issuedFor[wk[w2].tok] = None
        /\ wk[w1].status = 400 /\ wk[w2].status = 400 /\ wk[w1].detail = wk[w2].detail

\* C10: a confirm with matching passwords that arrives after a confirm with
\* the same token was answered 200 is answered with the generic 400 and
\* changes no password.
C10_NoReplay ==
    [][\A w \in Workers :
        (/\ wk[w].op = "confirm" /\ wk[w].pc \notin {"idle", "done"}
         /\ wk[w].snap.conf /\ wk'[w] # wk[w]) =>
            /\ users' = users
            /\ wk'[w].pc = "done" =>
                  wk'[w].status = 400 /\ wk'[w].detail = DetailInvalidToken]_vars

C10_Witness ==
    \E w \in Workers :
        /\ wk[w].pc = "done" /\ wk[w].op = "confirm" /\ ~wk[w].malformed
        /\ wk[w].snap.conf /\ wk[w].status = 400
        /\ users[1].password = make_password("p2")

\* worker w, handling a reset request, takes a step of generate_password_reset_token
IssueSteps(w) == wk[w].pc \in {"setex", "cache_set"} /\ wk'[w] # wk[w]

\* C11: issue returns the generated token to the view and the view answers
\* 200 with it, whatever the stores do: after a failed or skipped primary
\* write it goes on to the secondary write, and after a failed secondary
\* write it still returns the token, which then is held by neither store.
C11_IssueAlwaysReturnsToken ==
    [][\A w \in Workers :
        LET t == wk[w].tok IN
        IssueSteps(w) =>
            /\ wk'[w].pc \in {"cache_set", "done"}
            /\ (wk[w].pc = "setex" /\ ~redisUp) => wk'[w].pc = "cache_set" /\ wk'[w].tok = t
            /\ wk[w].pc = "cache_set" => wk'[w].pc = "done"
            /\ wk'[w].pc = "done" =>
                  /\ wk'[w].status = 200 /\ wk'[w].token = t
                  /\ wk'[w].detail = DetailGenerated
            /\ (wk[w].pc = "cache_set" /\ ~cacheUp) =>
                  ~Holds(redis', t) /\ ~Holds(cache', t)]_vars

\* a reset request was answered with a token that no store ever held
C11_Witness ==
    \E w \in Workers :
        /\ wk[w].pc = "done" /\ wk[w].op = "request" /\ wk[w].token # 0
        /\ wk[w].status = 200
        /\ age[wk[w].token] < 0
        /\ ~Holds(redis, wk[w].token) /\ ~Holds(cache, wk[w].token)
        /\ redis_available

\* the fallback of issue is taken whenever the primary is not written
FallbackTaken(w) ==
    /\ (wk[w].pc = "setex" /\ wk'[w] # wk[w] /\ ~redisUp) => wk'[w].pc = "cache_set"
    /\ (CanStart(w) /\ wk'[w].op = "request" /\ wk'[w].pc # "done" /\ ~redis_available)
          => wk'[w].pc = "cache_set"

\* the secondary entry equals what the primary write would have stored: the
\* same key, the same text (the primary keeps its utf-8 bytes), 600 seconds
SameEntry(w) ==
    LET k == Key(wk[w].tok)
        primary == redis_setex(redis, k, TTL, PyStr(wk[w].user_id))
    IN  /\ cache'[k].val = Decode(primary[k].val)
        /\ cache'[k].ttl = primary[k].ttl
        /\ cache'[k].ttl = 600
        /\ \A k2 \in Keys \ {k} : cache'[k2] = cache[k2]

\* a redeem served by the secondary tier returns the text of the issued user id
SecondaryRedeems(w) ==
    (RedeemReturns(w) /\ wk'[w].tier = "cache") => wk'[w].ret = IssuedText(wk[w].tok)

\* C12 as stated: whenever issue does not write the primary store, the
\* secondary store afterwards holds the same key, value and 600-second expiry.
C12_FallbackAlwaysStores ==
    [][\A w \in Workers :
        /\ FallbackTaken(w)
        /\ (wk[w].pc = "cache_set" /\ wk'[w] # wk[w]) => SameEntry(w)
        /\ SecondaryRedeems(w)]_vars

\* C12 amended: whenever issue does not write the primary store it makes the
\* secondary write with the same key, value and 600-second expiry; if that
\* write succeeds the token is redeemable from the secondary tier, and if it
\* raises too the secondary store is left as it was and holds no such token.
C12_FallbackStoresUnlessWriteFails ==
    [][\A w \in Workers :
        /\ FallbackTaken(w)
        /\ (wk[w].pc = "cache_set" /\ wk'[w] # wk[w]) =>
              /\ cacheUp => SameEntry(w)
              /\ ~cacheUp => cache' = cache /\ ~Holds(cache', wk[w].tok)
        /\ SecondaryRedeems(w)]_vars

\* a token issued while the primary was failing sits in the secondary store
\* with its full expiry
C12_Witness ==
    \E w \in Workers :
        /\ wk[w].pc = "done" /\ wk[w].op = "request" /\ wk[w].token # 0
        /\ redis_available
        /\ cache[Key(wk[w].token)] = [val |-> IssuedText(wk[w].token), ttl |-> TTL]
        /\ ~Holds(redis, wk[w].token)

\* the primary read finds the token and goes on to delete it
PrimaryReadServes(w) ==
    (wk[w].pc = "redis_get" /\ wk'[w] # wk[w] /\ redisUp /\ Holds(redis, wk[w].tok))
        => /\ wk'[w].pc = "redis_delete"
           /\ wk'[w].user_id = Decode(redis[Key(wk[w].tok)].val)
           /\ cache' = cache

\* C13 as stated: a token the primary read found is deleted from the primary
\* store and its user id returned at once; the secondary store is neither
\* consulted nor changed.
C13_PrimaryHitAlwaysShortCircuits ==
    [][\A w \in Workers :
        /\ PrimaryReadServes(w)
        /\ (wk[w].pc = "redis_delete" /\ wk'[w] # wk[w]) =>
              /\ wk'[w].pc = "view" /\ wk'[w].tier = "redis"
              /\ wk'[w].ret = wk[w].user_id
              /\ ~Holds(redis', wk[w].tok)
              /\ cache' = cache]_vars

\* C13 amended: a token the primary read found is deleted from the primary
\* store and its user id returned at once, the secondary store neither
\* consulted nor changed, if the primary delete succeeds; if that delete
\* raises, the token stays in the primary store and redeem goes on to the
\* secondary store.
C13_PrimaryHitShortCircuitsUnlessDeleteFails ==
    [][\A w \in Workers :
        /\ PrimaryReadServes(w)
        /\ (wk[w].pc = "redis_delete" /\ wk'[w] # wk[w]) =>
              /\ cache' = cache
              /\ redisUp =>
                    /\ wk'[w].pc = "view" /\ wk'[w].tier = "redis"
                    /\ wk'[w].ret = wk[w].user_id
                    /\ ~Holds(redis', wk[w].tok)
              /\ ~redisUp => wk'[w].pc = "cache_get" /\ redis' = redis]_vars

\* a redeem answered from the primary tier while the secondary store holds
\* another token, which is still there
C13_Witness ==
    \E w \in Workers, t \in Tokens :
        /\ wk[w].pc = "view" /\ wk[w].tier = "redis"
        /\ wk[w].ret = IssuedText(wk[w].tok)
        /\ t # wk[w].tok /\ Holds(cache, t)

\* C14: a store call that raises inside issue or redeem never reaches the
\* view: issue goes on to the next tier or returns the token, redeem goes on
\* as it does when the tier does not hold the token (the primary falls
\* through to the secondary, the secondary returns None), the failing store
\* is left untouched, and no reset request or confirm is answered 500.
C14_StoreFailuresStayInAdapter ==
    [][\A w \in Workers :
        LET r == wk[w]
            absent == [k \in Keys |-> Absent]
        IN  (wk'[w] # r) =>
            /\ (r.pc = "setex" /\ ~redisUp) =>
                  wk'[w].pc = "cache_set" /\ redis' = redis
            /\ (r.pc = "cache_set" /\ ~cacheUp) =>
                  /\ wk'[w].pc = "done" /\ wk'[w].status = 200 /\ wk'[w].token = r.tok
                  /\ cache' = cache
            /\ (r.pc \in {"redis_get", "redis_delete"} /\ ~redisUp) =>
                  wk'[w].pc = "cache_get" /\ redis' = redis
            /\ (r.pc \in {"cache_get", "cache_delete"} /\ ~cacheUp) =>
                  /\ wk'[w].pc = "view" /\ wk'[w].ret = None
                  /\ wk'[w].ret = StoreGet(absent, Key(r.tok))
                  /\ cache' = cache
            /\ wk'[w].pc = "done" => wk'[w].status # 500]_vars

\* a confirm of a token the primary store holds is rejected with 400 while
\* neither store answers
C14_Witness ==
    \E w \in Workers :
        /\ wk[w].pc = "done" /\ wk[w].op = "confirm" /\ ~wk[w].malformed
        /\ wk[w].status = 400
        /\ ~redisUp /\ ~cacheUp /\ redis_available
        /\ Holds(redis, wk[w].tok)

\* the subjects registered under an email
SubjectsWithEmail(email) == {u \in UserIds : users[u].exists /\ users[u].email = email}

\* C20: the answer to a reset request carries a token exactly when a subject
\* with the submitted email exists; that token was issued for that subject's
\* id, by one issue call: no other answer carries it.
C20_TokenIffSubjectExists ==
    \A w \in Workers :
        LET r == wk[w] IN
        (r.pc = "done" /\ r.op = "request") =>
            /\ (r.token # 0) <=> (SubjectsWithEmail(r.email) # {})
            /\ r.token # 0 =>
                  /\ r.status = 200
                  /\ issuedFor[r.token] \in {PyInt(u) : u \in SubjectsWithEmail(r.email)}
                  /\ \A w2 \in Workers \ {w} :
                        (wk[w2].op = "request" /\ wk[w2].pc = "done") => wk[w2].token # r.token

\* a registered and an unregistered email answered side by side
C20_Witness ==
    \E w1, w2 \in Workers :
        /\ wk[w1].pc = "done" /\ wk[w1].op = "request" /\ wk[w1].email = "a@x"
        /\ wk[w1].token # 0 /\ issuedFor[wk[w1].token] = PyInt(1)
        /\ wk[w2].pc = "done" /\ wk[w2].op = "request" /\ wk[w2].email = "c@x"
        /\ wk[w2].token = 0 /\ wk[w2].status = 200

\* the throttle key of the request worker w handles
KeyOf(w) == ThrottleKey(ScopeOf(wk[w].op), wk[w].ident)

\* worker w's allow_request call returns in this step
Decides(w) == wk[w].pc = "throttle" /\ wk'[w] # wk[w]

\* C15: with one request at a time, a request is admitted exactly when fewer
\* than the configured maximum of requests of its (scope, client) were
\* admitted in the window before it, and is answered 429 otherwise: the first
\* N requests of a window are admitted, every further one is rejected until
\* the oldest of them has left the window, and then requests are admitted
\* again.  A rejected request does not count.
C15_AdmitsExactlyFirstN ==
    [][\A w \in Workers :
        Decides(w) =>
            /\ Len(admits[KeyOf(w)]) < NumRequests =>
                  /\ wk'[w].pc = "admitted"
                  /\ Len(admits'[KeyOf(w)]) = Len(admits[KeyOf(w)]) + 1
            /\ Len(admits[KeyOf(w)]) >= NumRequests =>
                  /\ wk'[w].pc = "done" /\ wk'[w].status = 429
                  /\ admits' = admits /\ throttle' = throttle]_vars

\* a client that was answered 429 is admitted again after the window passed
C15_Witness ==
    /\ wk["w1"].pc = "admitted"
    /\ rejected[KeyOf("w1")]
    /\ admits[KeyOf("w1")] = <<0>>

\* C16: in every interleaving, the requests of one (scope, client) admitted
\* within one window are no more than the configured maximum.
C16_NeverOverAdmits ==
    \A k \in ThrottleKeys : Len(admits[k]) <= NumRequests

\* the limiter rejects the request of worker w: the history it read is full
Rejects(w) == Decides(w) /\ Len(wk[w].history) >= NumRequests

\* C17: no view runs before its throttle: a request starts with
\* allow_request, and one the limiter rejects is answered 429 whatever it
\* carries, nothing is verified, no token is issued or redeemed and no
\* password changes.
C17_ThrottleBeforeView ==
    [][\A w \in Workers :
        /\ (wk[w].pc \in {"idle", "done"} /\ wk'[w] # wk[w]) => wk'[w].pc = "throttle"
        /\ Decides(w) => wk'[w].pc \in {"admitted", "done"}
        /\ Rejects(w) =>
              /\ wk'[w].pc = "done" /\ wk'[w].status = 429
              /\ wk'[w].body = wk[w].body
              /\ wk'[w].user = None /\ wk'[w].jwt = None
              /\ wk'[w].token = 0 /\ wk'[w].ret = None
              /\ users' = users /\ redis' = redis /\ cache' = cache
              /\ issuedFor' = issuedFor /\ hist' = hist /\ latest' = latest]_vars

\* a login with the right password was answered 429
C17_Witness ==
    \E w \in Workers :
        /\ wk[w].pc = "done" /\ wk[w].status = 429
        /\ wk[w].op = "login" /\ wk[w].body = <<"a@x", "p1">>
        /\ authenticate(users, "a@x", "p1") = PyInt(1)

\* the subjects registered under email whose latest password is password
CurrentSubjects(email, password) ==
    {u \in SubjectsWithEmail(email) : latest[u] = password}

\* worker w answers a login in this step
LoginAnswers(w) == wk'[w].op = "login" /\ wk'[w].pc = "done" /\ wk'[w] # wk[w]

\* C18: a login is answered 200, with the subject and tokens made for it,
\* exactly when its email is registered and its password is the one last set
\* for that subject (at registration or by the latest successful reset
\* confirm), and 401 without user or tokens for every other pair.
C18_LoginVerifiesCurrentPassword ==
    [][\A w \in Workers :
        LoginAnswers(w) =>
            LET cur == CurrentSubjects(wk'[w].body[1], wk'[w].body[2])
            IN  /\ cur # {} =>
                      /\ wk'[w].status = 200
                      /\ wk'[w].user \in {PyInt(u) : u \in cur}
                      /\ wk'[w].jwt = wk'[w].user
                /\ cur = {} =>
                      /\ wk'[w].status = 401
                      /\ wk'[w].user = None /\ wk'[w].jwt = None]_vars

\* after a reset to p2 the subject logs in with p2, and p1 no longer verifies
C18_Witness ==
    \E w \in Workers :
        /\ wk[w].pc = "done" /\ wk[w].op = "login" /\ wk[w].status = 200
        /\ wk[w].body = <<"a@x", "p2">> /\ wk[w].user = PyInt(1)
        /\ authenticate(users, "a@x", "p1") = None

\* C19: every login that is not answered 200 gets the one response 401
\* 'Invalid credentials' with no other field, and a login with an unknown
\* email or with a missing email or password is such a login.
C19_FailedLoginIsGeneric ==
    \A w \in Workers :
        LET r == wk[w] IN
        (r.pc = "done" /\ r.op = "login") =>
            /\ (\/ SubjectsWithEmail(r.body[1]) = {}
                \/ r.body[1] = NoField \/ r.body[2] = NoField) => r.status = 401
            /\ r.status # 200 =>
                  /\ r.status = 401 /\ r.detail = DetailInvalidCredentials
                  /\ r.user = None /\ r.jwt = None /\ r.token = 0

\* a login with an unknown email and one without password, answered alike
C19_Witness ==
    \E w1, w2 \in Workers :
        /\ wk[w1].pc = "done" /\ wk[w1].op = "login" /\ wk[w1].body = <<"c@x", "p1">>
        /\ SubjectsWithEmail("c@x") = {}
        /\ wk[w2].pc = "done" /\ wk[w2].op = "login" /\ wk[w2].body = <<"a@x", NoField>>
        /\ wk[w1].status = 401 /\ wk[w2].status = 401
        /\ wk[w1].detail = wk[w2].detail

\* worker w's redeem call found its token in the primary store and could not
\* delete it: it is at the secondary read with the user id it had read
PrimaryDeleteFailed(w) == wk[w].pc = "cache_get" /\ wk[w].user_id # None

\* C25: when the primary read finds the token and the primary delete raises,
\* redeem does not return the user id it read: it goes on to the secondary
\* read, which does not find the token, and returns None; the token stays in
\* the primary store, where a later call that reads it goes on to redeem it.
C25_PrimaryDeleteFailureKeepsToken ==
    [][\A w \in Workers :
        /\ (wk[w].pc = "redis_delete" /\ wk'[w] # wk[w] /\ ~redisUp) =>
              /\ PrimaryDeleteFailed(w)'
              /\ wk'[w].ret = None
              /\ redis' = redis
        /\ (PrimaryDeleteFailed(w) /\ wk'[w] # wk[w]) =>
              /\ wk'[w].pc = "view" /\ wk'[w].ret = None
              /\ redis' = redis /\ cache' = cache
        /\ (wk[w].pc = "redis_get" /\ wk'[w] # wk[w] /\ redisUp
              /\ Holds(redis, wk[w].tok) /\ hist[wk[w].tok].kept) =>
              wk'[w].pc = "redis_delete"]_vars

\* a token whose primary delete failed in one call, answered 400, is redeemed
\* from the primary store by another call
C25_Witness ==
    \E w1, w2 \in Workers :
        /\ wk[w1].pc = "done" /\ wk[w1].op = "confirm" /\ ~wk[w1].malformed
        /\ wk[w1].status = 400
        /\ wk[w2].pc = "view" /\ wk[w2].tok = wk[w1].tok
        /\ hist[wk[w2].tok].kept
        /\ wk[w2].tier = "redis" /\ wk[w2].ret = IssuedText(wk[w2].tok)
        /\ ~wk[w2].snap.expired

\* C27: a password changes only in the answer of a confirm whose redeem
\* returned the id of that subject, read from a token issued for that subject;
\* no other step, and no confirm whose redeem returned None, changes one.
C27_PasswordChangesOnlyByOwnToken ==
    [][\A u \in UserIds :
        users'[u] # users[u] =>
            \E w \in Workers :
                /\ wk[w].pc = "view" /\ wk[w].op = "confirm"
                /\ wk[w].ret = PyStr(PyInt(u))
                /\ issuedFor[wk[w].tok] = PyInt(u)
                /\ hist[wk[w].tok].used
                /\ wk'[w].pc = "done" /\ wk'[w].status = 200
                /\ \A v \in UserIds \ {u} : users'[v] = users[v]]_vars

\* the password of subject 1 was reset with a token issued for it, while a
\* confirm whose redeem returned None was rejected; subject 2 is as it was
C27_Witness ==
    \E w1, w2 \in Workers :
        /\ wk[w1].pc = "done" /\ wk[w1].op = "confirm" /\ wk[w1].status = 200
        /\ issuedFor[wk[w1].tok] = PyInt(1)
        /\ users[1].password = make_password("p2")
        /\ users[2].password = make_password("p1")
        /\ wk[w2].pc = "done" /\ wk[w2].op = "confirm" /\ ~wk[w2].malformed
        /\ wk[w2].status = 400

\* worker w takes a step of validate_password_reset_token
RedeemSteps(w) ==
    /\ wk[w].pc \in {"redis_get", "redis_delete", "cache_get", "cache_delete"}
    /\ wk'[w] # wk[w]

\* C28: issue writes the secondary store only when its primary write did not
\* succeed (or the primary is not in use), redeem never writes a token into a
\* store, and so no token is ever held by both stores.
C28_OneTierPerToken ==
    [][/\ \A t \in Tokens :
            /\ (~Holds(cache, t) /\ Holds(cache', t)) =>
                  /\ ~Holds(redis, t)
                  /\ \E w \in Workers : wk[w].pc = "cache_set" /\ wk[w].tok = t
            /\ (~Holds(redis, t) /\ Holds(redis', t)) =>
                  \E w \in Workers : wk[w].pc = "setex" /\ wk[w].tok = t
            /\ ~(Holds(redis', t) /\ Holds(cache', t))
       /\ \A w \in Workers :
            RedeemSteps(w) =>
                \A t \in Tokens :
                    /\ Holds(redis', t) => redis'[Key(t)] = redis[Key(t)]
                    /\ Holds(cache', t) => cache'[Key(t)] = cache[Key(t)]]_vars

\* one token went to the secondary store because the primary write failed,
\* another to the primary store; each is in one store
C28_Witness ==
    \E t1, t2 \in Tokens :
        /\ redis_available
        /\ Holds(redis, t1) /\ ~Holds(cache, t1)
        /\ Holds(cache, t2) /\ ~Holds(redis, t2)

\* C29: a step of a request (arrival, issue, redeem, answer with or without a
\* password change) changes no store entry of any token but the one it
\* handles, and arrivals and answers change no store entry at all; a stored
\* token is found by the read of its tier whatever happened to other tokens.
C29_TokensAreIndependent ==
    [][\A w \in Workers :
        (wk'[w] # wk[w]) =>
            /\ \A t \in Tokens \ {wk[w].tok} :
                  /\ redis'[Key(t)] = redis[Key(t)]
                  /\ cache'[Key(t)] = cache[Key(t)]
            /\ wk[w].pc \in {"idle", "done", "view"} => redis' = redis /\ cache' = cache
            /\ PrimaryReadServes(w)
            /\ SecondaryReadServes(w)]_vars

\* subject 1 reset its password with one token while another token issued
\* for it is still stored
C29_Witness ==
    \E w \in Workers, t \in Tokens :
        /\ wk[w].pc = "done" /\ wk[w].op = "confirm" /\ wk[w].status = 200
        /\ t # wk[w].tok
        /\ issuedFor[t] = issuedFor[wk[w].tok]
        /\ Holds(redis, t) /\ redis[Key(t)].val = Encode(IssuedText(t))

\* worker w receives a request in this step
Arrives(w) == wk[w].pc \in {"idle", "done"} /\ wk'[w] # wk[w]

\* C30: redis_available never changes.  While it is False no call touches the
\* primary store: issue goes straight to the secondary write and redeem to
\* the secondary read, whether or not the primary answers.  While it is True
\* every issue and every redeem starts at the primary store, uses it when it
\* answers that call and falls back to the secondary store when it does not.
C30_AvailabilityDecidedOnce ==
    [][/\ redis_available' = redis_available
       /\ ~redis_available =>
            /\ redis' = redis
            /\ \A w \in Workers :
                  /\ wk'[w].pc \notin {"setex", "redis_get", "redis_delete"}
                  /\ (Arrives(w) /\ wk'[w].pc # "done") =>
                        wk'[w].pc = IF wk'[w].op = "request" THEN "cache_set" ELSE "cache_get"
       /\ redis_available =>
            \A w \in Workers :
                /\ (Arrives(w) /\ wk'[w].pc # "done") =>
                      wk'[w].pc = IF wk'[w].op = "request" THEN "setex" ELSE "redis_get"
                /\ (wk[w].pc = "setex" /\ wk'[w] # wk[w]) =>
                      IF redisUp
                      THEN Holds(redis', wk[w].tok) /\ wk'[w].pc = "done"
                      ELSE redis' = redis /\ wk'[w].pc = "cache_set"
                /\ (wk[w].pc = "redis_get" /\ wk'[w] # wk[w]) =>
                      IF redisUp /\ Holds(redis, wk[w].tok)
                      THEN wk'[w].pc = "redis_delete"
                      ELSE wk'[w].pc = "cache_get"]_vars

\* the primary store answers, yet a token was issued to and redeemed from the
\* secondary store and the primary store holds nothing
C30_Witness ==
    \E w \in Workers :
        /\ ~redis_available /\ redisUp
        /\ wk[w].pc = "view" /\ wk[w].tier = "cache"
        /\ wk[w].ret = IssuedText(wk[w].tok)
        /\ \A t \in Tokens : ~Holds(redis, t)

\* C21: an exception raised while the confirm view loads the subject or
\* writes the password is caught by the view: the answer is 500 with the one
\* retry-later text, no token and no password change.  Every answer of a
\* confirm that passed the serializer carries one of three distinct texts,
\* the retry-later text exactly with status 500, and a reset request for a
\* found subject is answered 200 or 500 with the issue-failed text.
C21_FailuresAnswered500 ==
    [][\A w \in Workers :
        /\ (wk[w].pc = "view" /\ wk'[w] # wk[w] /\ wk[w].ret # None /\ ~dbUp) =>
              /\ wk'[w].pc = "done" /\ wk'[w].status = 500
              /\ wk'[w].detail = DetailResetError /\ wk'[w].token = 0
              /\ users' = users
        /\ (Responds(w) /\ wk'[w].op = "confirm" /\ ~wk'[w].malformed) =>
              /\ wk'[w].detail \in {DetailResetOk, DetailInvalidToken, DetailResetError}
              /\ wk'[w].status = 500 <=> wk'[w].detail = DetailResetError
              /\ DetailResetError \notin {DetailResetOk, DetailInvalidToken}
        /\ (Responds(w) /\ wk'[w].op = "request" /\ wk'[w].found) =>
              \/ wk'[w].status = 200 /\ wk'[w].detail = DetailGenerated
              \/ wk'[w].status = 500 /\ wk'[w].detail = DetailIssueFailed]_vars

\* a confirm whose token was redeemed is answered 500 while the user table
\* does not answer; the password is as it was
C21_Witness ==
    \E w \in Workers :
        /\ wk[w].pc = "done" /\ wk[w].op = "confirm" /\ wk[w].status = 500
        /\ wk[w].ret = IssuedText(wk[w].tok)
        /\ ~dbUp /\ users[1].password = make_password("p1")

\* how far a handler has come
Rank(pc) ==
    CASE pc \in {"idle", "admitted"} -> 0
      [] pc \in {"setex", "redis_get"} -> 1
      [] pc \in {"cache_set", "redis_delete"} -> 2
      [] pc = "cache_get" -> 3
      [] pc = "cache_delete" -> 4
      [] pc = "view" -> 5
      [] OTHER -> 6

C26_TokenConsumedBeforeWrite ==
    [][\A w \in Workers :
        LET r == wk[w] IN
        /\ (r.pc = "view" /\ wk'[w] # r /\ r.ret # None
              /\ (~dbUp \/ ~users[ToPk(r.ret)].exists)) =>
              /\ wk'[w].pc = "done"
              /\ wk'[w].status = IF ~dbUp THEN 500 ELSE 400
              /\ users' = users
              /\ ~Holds(redis', r.tok) /\ ~Holds(cache', r.tok)
        /\ (RedeemReturns(w) /\ hist[r.tok].used) => wk'[w].ret = None
        /\ (r.pc = "view" /\ wk'[w] # r /\ r.ret = None) =>
              wk'[w].status = 400 /\ wk'[w].detail = DetailInvalidToken]_vars

\* the retry of a confirm whose token was redeemed but whose password write
\* did not happen is rejected; the password is as it was
C26_Witness ==
    \E w \in Workers :
        /\ wk[w].pc = "done" /\ wk[w].op = "confirm" /\ ~wk[w].malformed
        /\ wk[w].ret = None /\ wk[w].status = 400
        /\ hist[wk[w].tok].used /\ ~hist[wk[w].tok].conf
        /\ users[1].password = make_password("p1")

\* the budget a request of operation op from client ident counts against:
\* login has its own, reset request and reset confirm share one
BudgetOf(op, ident) ==
    <<"throttle", IF op = "login" THEN "login" ELSE "password_reset", ident>>

\* C23: a decision of the limiter reads and changes only the budget of the
\* request's (scope, client): a request is rejected only when that budget is
\* used up, is admitted whenever it is not, whatever the other budgets of the
\* same client and the budgets of other clients hold, and an admission counts
\* against that budget alone.  Reset request and reset confirm count against
\* the one password_reset budget of the client.
C23_BudgetsAreSeparate ==
    [][\A w \in Workers :
        Decides(w) =>
            LET k == BudgetOf(wk[w].op, wk[w].ident) IN
            /\ \A k2 \in ThrottleKeys \ {k} :
                  /\ throttle'[k2] = throttle[k2]
                  /\ admits'[k2] = admits[k2]
                  /\ rejected'[k2] = rejected[k2]
            /\ wk'[w].status = 429 => Len(admits[k]) >= NumRequests
            /\ Len(admits[k]) < NumRequests => wk'[w].pc = "admitted"
            /\ wk'[w].pc = "admitted" => Len(admits'[k]) = Len(admits[k]) + 1]_vars

\* a client whose login budget is used up, and who was answered 429 for a
\* login, has a reset request or confirm admitted
C23_Witness ==
    /\ wk["w1"].pc = "admitted" /\ wk["w1"].op \in {"request", "confirm"}
    /\ wk["w1"].ident = "ip1"
    /\ rejected[<<"throttle", "login", "ip1">>]
    /\ Len(admits[<<"throttle", "login", "ip1">>]) = NumRequests
    /\ Len(admits[<<"throttle", "password_reset", "ip1">>]) = 1

\* worker w answers a registration in this step
RegisterAnswers(w) == wk'[w].op = "register" /\ wk'[w].pc = "done" /\ wk'[w] # wk[w]

\* C24: a registration whose email is already registered, whose passwords
\* differ, whose password is weak or that lacks a field is answered 400 and
\* changes no user row; after every registration at most one user exists per
\* email.
C24_RejectedRegistrationCreatesNothing ==
    [][\A w \in Workers :
        RegisterAnswers(w) =>
            LET b == wk'[w].body
                refused ==
                    \/ SubjectsWithEmail(b[1]) # {}
                    \/ b[2] # b[3]
                    \/ b[2] \in WeakPasswords
                    \/ NoField \in {b[1], b[2], b[3]}
            IN  /\ refused => wk'[w].status = 400 /\ users' = users
                /\ \A e \in WellFormedEmails :
                      Cardinality({u \in UserIds : users'[u].exists /\ users'[u].email = e}) <= 1]_vars

====
